---- MODULE Spec2Model ----
(***************************************************************************)
(* The Snowflake client (python/snowflake_client.py) and the retrieval     *)
(* pipeline built on it (python/retrieval.py), as one state machine.       *)
(*                                                                         *)
(* One client thread makes top-level calls (connect, execute_query,        *)
(* answer_question), one at a time.  Every remote interaction (liveness    *)
(* probe, connection attempt, statement run) is one step whose outcome the *)
(* environment chooses: success, or a failure with an exception type and a *)
(* message.  The code that follows a remote interaction up to the next one *)
(* (classification, sleep, loop bookkeeping, return or raise) belongs to   *)
(* the same step.                                                          *)
(***************************************************************************)
EXTENDS Integers, Sequences, FiniteSets, TLC

(***************************************************************************)
(* Bounds of the exploration.                                              *)
(***************************************************************************)
\* retry.max_attempts ranges over 1..MaxAttempts
MaxAttempts == 3
\* (retry.initial_delay, retry.backoff_factor): the defaults of RetryConfig
\* and one other pair
RetryDelays == {<<1, 2>>, <<2, 3>>}
\* the service accepts MaxHandles connections in all, and refuses the rest
MaxHandles == 2
\* the search service returns at most MaxResults records
MaxResults == 2

(***************************************************************************)
(* Program constants.                                                      *)
(***************************************************************************)
\* SnowflakeClient._connection = None
NoHandle == 0
\* RetrievalConfig.top_k
top_k == 5

\* the threads that share the client
Threads == {1, 2}

VARIABLES
    \* RetryConfig (config.py), loaded once
    max_attempts, backoff_factor, initial_delay,
    \* SnowflakeClient._connection: the handle held, or NoHandle
    _connection,
    \* the service: the handles it serves that the client still holds, and
    \* the number of handles issued so far
    alive, issued,
    \* the top-level call in progress
    op,
    \* frame of _is_retryable_error(error): the argument and the value returned
    r_error, r_ret,
    \* frame of cursor(): position, the local conn
    k_pc, k_conn,
    \* frame of close(): position, the handle held at entry, the exception
    \* self._connection.close() raised
    x_pc, x_held, x_e,
    \* frames of two threads inside connect() at once, per thread: position,
    \* loop variable, the handle snowflake.connector.connect returned to it,
    \* the handle connect() returned to its caller
    t_pc, t_attempt, t_made, t_ret,
    \* the DOCUMENT_ID column of the rows of the DOCUMENTS table
    documents,
    \* frame of process_document(): position, the id generated, the tuple
    \* returned
    p_pc, p_document_id, p_out,
    \* frame of a client that calls _construct_prompt twice on the same
    \* arguments: the arguments and the values returned so far
    b_question, b_results, b_prompts,
    \* frame of connect(): position, loop variable, exception raised
    cpc, c_attempt, c_err,
    \* frame of execute_query(): position, loop variable, arguments, the local
    \* conn, rows returned, exception raised
    qpc, q_attempt, q_kind, q_fetch, q_conn, q_rows, q_err,
    \* frame of answer_question(): stage, arguments, search results, prompt,
    \* the dictionary returned, the exception raised
    a_stage, a_question, a_document_id, a_results, a_prompt, a_out, a_exc,
    \* observers of the current connect() call: connection attempts made,
    \* sleeps taken and their sum, whether the probe succeeded, the failure of
    \* the last connection attempt that failed
    connTries, cSleeps, cSleepTotal, cProbeOk, cLastFail,
    \* observers of the current execute_query() call: loop iterations begun,
    \* statement runs, sleeps of execute_query itself and their sum, connection
    \* attempts of all its connect() calls, whether an acquire failed, and the
    \* last failure the except clause saw, with its origin ("acquire" or "run")
    qAttempts, qRuns, qSleeps, qSleepTotal, qConnTries, qAcqFailed, qLast,
    \* the handle held when the current attempt of execute_query started, if
    \* that handle was dead by then, else NoHandle
    qDeadAtStart,
    \* the cursors the current execute_query() call has opened and not closed
    qOpenCursors,
    \* observers of the current answer_question() call: calls of _search and
    \* of _generate_answer, and for each stage the rows its execute_query
    \* returned and the failure it raised
    searchCalls, genCalls, aSearchRows, aGenRows, aSearchErr, aGenErr

cfgVars  == <<max_attempts, backoff_factor, initial_delay>>
cliVars  == <<_connection, alive, issued>>
topVars  == <<op, r_error, r_ret, k_pc, k_conn>>
closeVars == <<x_pc, x_held, x_e>>
raceVars == <<t_pc, t_attempt, t_made, t_ret>>
connVars == <<cpc, c_attempt, c_err, connTries, cSleeps, cSleepTotal, cProbeOk,
              cLastFail>>
execVars == <<qpc, q_attempt, q_kind, q_fetch, q_conn, q_rows, q_err,
              qAttempts, qRuns, qSleeps, qSleepTotal, qConnTries, qAcqFailed, qLast,
              qDeadAtStart, qOpenCursors>>
ansVars  == <<a_stage, a_question, a_document_id, a_results, a_prompt, a_out, a_exc,
              searchCalls, genCalls, aSearchRows, aGenRows, aSearchErr, aGenErr>>
docVars  == <<documents, p_pc, p_document_id, p_out>>
buildVars == <<b_question, b_results, b_prompts>>
vars == <<cfgVars, raceVars, closeVars, cliVars, topVars, connVars, execVars, ansVars, docVars, buildVars>>

(***************************************************************************)
(* Failure messages, as character sequences, and the classifier.           *)
(***************************************************************************)
MsgReset == <<"C", "o", "n", "n", "e", "c", "t", "i", "o", "n", " ", "r", "e", "s", "e", "t", " ", "b", "y", " ", "p", "e", "e", "r">>
MsgInvalid == <<"i", "n", "v", "a", "l", "i", "d", " ", "i", "d", "e", "n", "t", "i", "f", "i", "e", "r", " ", "'", "F", "O", "O", "'">>
MsgNetwork == <<"n", "e", "t", "w", "o", "r", "k", " ", "u", "n", "r", "e", "a", "c", "h", "a", "b", "l", "e">>
MsgAuth == <<"I", "n", "c", "o", "r", "r", "e", "c", "t", " ", "u", "s", "e", "r", "n", "a", "m", "e", " ", "o", "r", " ", "p", "a", "s", "s", "w", "o", "r", "d">>
MsgBrokenPipe == <<"B", "r", "o", "k", "e", "n", " ", "p", "i", "p", "e">>
MsgUnavailable == <<"5", "0", "3", " ", "S", "e", "r", "v", "i", "c", "e", " ", "U", "n", "a", "v", "a", "i", "l", "a", "b", "l", "e">>
MsgTimedOut == <<"R", "e", "a", "d", " ", "t", "i", "m", "e", "d", " ", "o", "u", "t">>
MsgTimeout == <<"Q", "u", "e", "r", "y", " ", "T", "I", "M", "E", "O", "U", "T">>
MsgPrivileges == <<"I", "n", "s", "u", "f", "f", "i", "c", "i", "e", "n", "t", " ", "p", "r", "i", "v", "i", "l", "e", "g", "e", "s">>
MsgNoIndex == <<"S", "e", "a", "r", "c", "h", " ", "s", "e", "r", "v", "i", "c", "e", " ", "d", "o", "e", "s", " ", "n", "o", "t", " ", "e", "x", "i", "s", "t">>

UpperChars == <<"A", "B", "C", "D", "E", "F", "G", "H", "I", "J", "K", "L", "M", "N", "O", "P", "Q", "R", "S", "T", "U", "V", "W", "X", "Y", "Z">>
LowerChars == <<"a", "b", "c", "d", "e", "f", "g", "h", "i", "j", "k", "l", "m", "n", "o", "p", "q", "r", "s", "t", "u", "v", "w", "x", "y", "z">>

\* str.lower() on one character
LowerChar(c) ==
    IF \E i \in 1..Len(UpperChars) : UpperChars[i] = c
    THEN LowerChars[CHOOSE i \in 1..Len(UpperChars) : UpperChars[i] = c]
    ELSE c

\* str.lower()
Lower(s) == [i \in 1..Len(s) |-> LowerChar(s[i])]

\* pattern in text
Contains(pattern, text) ==
    \E k \in 0..(Len(text) - Len(pattern)) :
        \A i \in 1..Len(pattern) : text[k + i] = pattern[i]

retryable_patterns == <<
    <<"t", "i", "m", "e", "o", "u", "t">>,
    <<"c", "o", "n", "n", "e", "c", "t", "i", "o", "n">>,
    <<"n", "e", "t", "w", "o", "r", "k">>,
    <<"u", "n", "a", "v", "a", "i", "l", "a", "b", "l", "e">>,
    <<"r", "e", "s", "e", "t">>,
    <<"b", "r", "o", "k", "e", "n", " ", "p", "i", "p", "e">> >>

\* mutant of is_retryable_error: the message is not lowered before matching
is_retryable_error_cased(msg) ==
    \E p \in 1..Len(retryable_patterns) : Contains(retryable_patterns[p], msg)

\* SnowflakeClient._is_retryable_error, on str(error)
is_retryable_error(msg) ==
    LET error_msg == Lower(msg)
    IN  \E p \in 1..Len(retryable_patterns) : Contains(retryable_patterns[p], error_msg)

(***************************************************************************)
(* Exceptions.  "SfError" is snowflake.connector.Error and its subclasses, *)
(* "Other" any other Exception a remote call may raise.                    *)
(***************************************************************************)
NoFailure == [type |-> "none", msg |-> <<>>]
Messages == {MsgReset, MsgInvalid, MsgNetwork, MsgAuth, MsgNoIndex}
Failure(type, msg) == [type |-> type, msg |-> msg]

\* what snowflake.connector.connect may raise
ConnectFailures ==
    {Failure("SfError", MsgNetwork), Failure("SfError", MsgAuth),
     Failure("Other", MsgNetwork)}

\* what cursor.execute may raise for a statement of each kind
StatementFailures(kind) ==
    {Failure("SfError", MsgReset), Failure("SfError", MsgInvalid),
     Failure("Other", MsgReset)}
    \cup (IF kind = "search" THEN {Failure("SfError", MsgNoIndex)} ELSE {})

\* the exceptions _is_retryable_error may be handed
ClassifierFailures ==
    {Failure(t, m) : t \in {"SfError", "Other"},
                     m \in Messages \cup {MsgBrokenPipe, MsgUnavailable, MsgTimedOut,
                                          MsgTimeout, MsgPrivileges}}

\* a failure as the except clause of execute_query sees it
Caught(f, origin) == [f |-> f, origin |-> origin]
NoLast == Caught(NoFailure, "none")

\* base ** exp
RECURSIVE Pow(_, _)
Pow(base, exp) == IF exp = 0 THEN 1 ELSE base * Pow(base, exp - 1)

\* mutant of Delay: the factor multiplied by the attempt, not raised to it
DelayLinear(attempt) == initial_delay * backoff_factor * attempt

\* mutant of Delay: the exponent is the number of the attempt, counted from 1
DelayFromOne(attempt) == initial_delay * Pow(backoff_factor, attempt + 1)

\* delay = retry_config.initial_delay * (retry_config.backoff_factor ** attempt)
Delay(attempt) == initial_delay * Pow(backoff_factor, attempt)

(***************************************************************************)
(* Python values the pipeline handles.  A dict is the sequence of its      *)
(* items [k, v] in insertion order, keys distinct.                         *)
(***************************************************************************)
Item(k, v) == [k |-> k, v |-> v]

\* k in d
DictHas(d, k) == \E i \in 1..Len(d) : d[i].k = k

\* d[k]
DictGet(d, k) == d[CHOOSE i \in 1..Len(d) : d[i].k = k].v

\* d[k] = v
DictSet(d, k, v) ==
    IF DictHas(d, k)
    THEN [i \in 1..Len(d) |-> IF d[i].k = k THEN Item(k, v) ELSE d[i]]
    ELSE Append(d, Item(k, v))

\* str.upper() on the field names
Upper(k) ==
    CASE k = "chunk_text" -> "CHUNK_TEXT"
      [] k = "document_id" -> "DOCUMENT_ID"
      [] k = "filename" -> "FILENAME"
      [] k = "chunk_index" -> "CHUNK_INDEX"
      [] OTHER -> k

\* a column value: NULL, a string, or a mapping the driver already decoded
ColNull == [t |-> "null"]
ColStr(text) == [t |-> "str", text |-> text]
ColDict(value) == [t |-> "dict", value |-> value]

\* strings: the empty string, json.dumps(value), text that is not JSON
EmptyText == <<>>
JsonText(value) == <<"json", value>>
BadText == <<"{", "oops">>

\* decoded JSON: an object with or without a "results" member, an array
JObject(results) == [t |-> "object", fields |-> {"results"}, results |-> results]
JObjectNoResults == [t |-> "object", fields |-> {"request_id"}, results |-> <<>>]
JArray == [t |-> "array", fields |-> {}, results |-> <<>>]

\* json.loads
json_loads(text) ==
    IF Len(text) = 2 /\ text[1] = "json"
    THEN [raised |-> FALSE, value |-> text[2]]
    ELSE [raised |-> TRUE, value |-> JArray]

\* truth value of a column value
Truthy(col) ==
    CASE col.t = "null" -> FALSE
      [] col.t = "str" -> col.text # EmptyText
      [] col.t = "dict" -> col.value.fields # {}

(***************************************************************************)
(* What the service may send back.                                         *)
(***************************************************************************)
\* records of the search service, as it spells the field names
RecLower == << Item("chunk_text", "alpha"), Item("document_id", "d1"),
               Item("filename", "notes.txt"), Item("chunk_index", "0") >>
RecUpper == << Item("CHUNK_TEXT", "beta"), Item("DOCUMENT_ID", "d1"),
               Item("FILENAME", "notes.txt"), Item("CHUNK_INDEX", "1") >>
RecNoFile == << Item("chunk_text", "gamma"), Item("document_id", "d2"),
                Item("chunk_index", "0") >>
ServiceRecords == {RecLower, RecUpper, RecNoFile}

\* the ranked lists of at most MaxResults records, no record twice
ResultLists ==
    {l \in UNION {[1..n -> ServiceRecords] : n \in 0..MaxResults} :
        \A i, j \in 1..Len(l) : l[i] = l[j] => i = j}

\* the document a record of the search service belongs to
RecordDocument(r) ==
    r[CHOOSE i \in 1..Len(r) : Upper(r[i].k) = "DOCUMENT_ID"].v

\* the ranked lists the search service may answer a request with: under an
\* "@eq" filter on DOCUMENT_ID, records of that document only
Served(params) ==
    IF "filter" \in DOMAIN params
    THEN {l \in ResultLists :
            \A i \in 1..Len(l) : RecordDocument(l[i]) = params.filter}
    ELSE ResultLists

\* a DictCursor row with one column
Row(column, value) == << Item(column, value) >>

\* the row of SELECT SNOWFLAKE.CORTEX.SEARCH_PREVIEW(..., params) AS search_results
SearchRows(params) ==
    {Row("OTHER", ColNull), Row("SEARCH_RESULTS", ColNull)}
    \cup {Row("SEARCH_RESULTS", ColStr(t)) :
            t \in {EmptyText, BadText, JsonText(JArray), JsonText(JObjectNoResults)}}
    \cup {Row("SEARCH_RESULTS", ColStr(JsonText(JObject(l)))) : l \in Served(params)}
    \cup {Row("SEARCH_RESULTS", ColDict(JObject(l))) : l \in Served(params)}

\* the row of SELECT AI_COMPLETE(...) AS answer
GenerateRows ==
    {Row("OTHER", ColNull), Row("ANSWER", ColNull),
     Row("ANSWER", ColStr(<<"generated">>))}

(***************************************************************************)
(* connect()                                                               *)
(***************************************************************************)
\* mutant of connect_attempts_remain: gives up one attempt early
connect_attempts_remain_early(attempt) == attempt < max_attempts - 2

\* mutant of connect_attempts_remain: allows one attempt too many
connect_attempts_remain_late(attempt) == attempt < max_attempts

\* line 105: attempt < retry_config.max_attempts - 1
connect_attempts_remain(attempt) == attempt < max_attempts - 1

\* no connect() frame
ConnIdle ==
    /\ cpc' = "off"
    /\ c_attempt' = 0
    /\ c_err' = NoFailure
    /\ connTries' = 0
    /\ cSleeps' = 0
    /\ cSleepTotal' = 0
    /\ cProbeOk' = FALSE
    /\ cLastFail' = NoFailure

\* mutant of ConnectBegin: the handle held is not looked at, every call opens
\* a connection
ConnectBeginAnew ==
    /\ cpc' = "try"
    /\ c_attempt' = 0
    /\ c_err' = NoFailure
    /\ connTries' = 0
    /\ cSleeps' = 0
    /\ cSleepTotal' = 0
    /\ cProbeOk' = FALSE
    /\ cLastFail' = NoFailure

\* entry of connect(): line 68 decides between the probe and the loop
ConnectBegin ==
    /\ cpc' = IF _connection # NoHandle THEN "probe" ELSE "try"
    /\ c_attempt' = 0
    /\ c_err' = NoFailure
    /\ connTries' = 0
    /\ cSleeps' = 0
    /\ cSleepTotal' = 0
    /\ cProbeOk' = FALSE
    /\ cLastFail' = NoFailure

\* what the probe statement may raise
ProbeFailures == {Failure("SfError", MsgReset), Failure("Other", MsgReset)}

\* mutant of probe_except: only driver errors are caught
probe_except_driver(f) == IF f.type = "SfError" THEN "try" ELSE "raised"

\* lines 73-76, except Exception: whatever the probe raised, connect goes on
\* to the connection attempts
probe_except(f) == "try"

\* the liveness probe of lines 69-76: SELECT 1 on the handle held
ConnectProbe ==
    /\ cpc = "probe"
    /\ \/ \* the probe succeeds: return self._connection
          /\ _connection \in alive
          /\ cpc' = "returned"
          /\ cProbeOk' = TRUE
          /\ UNCHANGED <<_connection, alive, c_err>>
       \/ \E f \in ProbeFailures :
          IF probe_except(f) = "try"
          THEN \* the handle is dropped, not closed
               /\ cpc' = "try"
               /\ _connection' = NoHandle
               /\ alive' = alive \ {_connection}
               /\ UNCHANGED <<cProbeOk, c_err>>
          ELSE /\ cpc' = "raised"
               /\ c_err' = f
               /\ UNCHANGED <<_connection, alive, cProbeOk>>
    /\ UNCHANGED <<cfgVars, raceVars, closeVars, buildVars, docVars, issued, topVars, c_attempt, connTries,
                   cSleeps, cSleepTotal, cLastFail, execVars, ansVars>>

\* the except clause of lines 102-113 for failure f of attempt c_attempt
ConnectHandleFailure(f) ==
    IF f.type = "SfError" /\ connect_attempts_remain(c_attempt)
    THEN \* time.sleep(delay)
         /\ cSleeps' = cSleeps + 1
         /\ cSleepTotal' = cSleepTotal + Delay(c_attempt)
         /\ c_attempt' = c_attempt + 1
         /\ cpc' = "try"
         /\ UNCHANGED c_err
    ELSE \* the last attempt re-raises; any other exception is not caught
         /\ cpc' = "raised"
         /\ c_err' = f
         /\ UNCHANGED <<cSleeps, cSleepTotal, c_attempt>>

\* one iteration of the loop of lines 81-113
ConnectAttempt ==
    /\ cpc = "try"
    /\ connTries' = connTries + 1
    /\ qConnTries' = IF qpc = "acquire" THEN qConnTries + 1 ELSE qConnTries
    /\ \/ \* snowflake.connector.connect returns a new handle
          /\ issued < MaxHandles
          /\ issued' = issued + 1
          /\ _connection' = issued + 1
          /\ alive' = alive \cup {issued + 1}
          /\ cpc' = "returned"
          /\ UNCHANGED <<c_attempt, c_err, cSleeps, cSleepTotal, cLastFail>>
       \/ \E f \in ConnectFailures :
          /\ cLastFail' = f
          /\ ConnectHandleFailure(f)
          /\ UNCHANGED <<_connection, alive, issued>>
    /\ UNCHANGED <<cfgVars, raceVars, closeVars, buildVars, docVars, topVars, cProbeOk, qpc, q_attempt, q_kind,
                   q_fetch, q_conn, q_rows, q_err, qAttempts, qRuns, qSleeps,
                   qSleepTotal, qAcqFailed, qLast, qDeadAtStart, qOpenCursors, ansVars>>

\* a client calls connect()
CallConnect ==
    /\ op = "none"
    /\ op' = "connect"
    /\ UNCHANGED <<r_error, r_ret, k_pc, k_conn>>
    /\ ConnectBegin
    /\ UNCHANGED <<cfgVars, raceVars, closeVars, buildVars, docVars, cliVars, execVars, ansVars>>

\* connect() returns the handle to the client, or raises
ConnectDone ==
    /\ op = "connect"
    /\ cpc \in {"returned", "raised"}
    /\ op' = "none"
    /\ UNCHANGED <<r_error, r_ret, k_pc, k_conn>>
    /\ ConnIdle
    /\ UNCHANGED <<cfgVars, raceVars, closeVars, buildVars, docVars, cliVars, execVars, ansVars>>

(***************************************************************************)
(* execute_query()                                                         *)
(***************************************************************************)
NoRows == [kind |-> "none", rows |-> <<>>]

\* mutant of query_attempts_remain: gives up one attempt early
query_attempts_remain_early(attempt) == attempt < max_attempts - 2

\* mutant of query_attempts_remain: the last attempt too is followed by a sleep
query_attempts_remain_late(attempt) == attempt < max_attempts
\* line 162: attempt < retry_config.max_attempts - 1
query_attempts_remain(attempt) == attempt < max_attempts - 1

\* the handle held, when the service no longer serves it
DeadHandle ==
    IF _connection # NoHandle /\ _connection \notin alive THEN _connection ELSE NoHandle

\* no execute_query() frame
ExecIdle ==
    /\ qpc' = "off"
    /\ q_attempt' = 0
    /\ q_kind' = "none"
    /\ q_fetch' = FALSE
    /\ q_conn' = NoHandle
    /\ q_rows' = NoRows
    /\ q_err' = NoFailure
    /\ qAttempts' = 0
    /\ qRuns' = 0
    /\ qSleeps' = 0
    /\ qSleepTotal' = 0
    /\ qConnTries' = 0
    /\ qAcqFailed' = FALSE
    /\ qLast' = NoLast
    /\ qDeadAtStart' = NoHandle
    /\ qOpenCursors' = 0

\* entry of execute_query(query, params, fetch): the first iteration starts
ExecBegin(kind, fetch) ==
    /\ qpc' = "acquire"
    /\ q_attempt' = 0
    /\ q_kind' = kind
    /\ q_fetch' = fetch
    /\ q_conn' = NoHandle
    /\ q_rows' = NoRows
    /\ q_err' = NoFailure
    /\ qAttempts' = 1
    /\ qRuns' = 0
    /\ qSleeps' = 0
    /\ qSleepTotal' = 0
    /\ qConnTries' = 0
    /\ qAcqFailed' = FALSE
    /\ qLast' = NoLast
    /\ qDeadAtStart' = DeadHandle
    /\ qOpenCursors' = 0
    /\ ConnectBegin

\* mutant of ExecHandleFailure: the except clause catches every exception
ExecHandleFailureAnyType(f, origin) ==
    /\ qAcqFailed' = (qAcqFailed \/ origin = "acquire")
    /\ qLast' = Caught(f, origin)
    /\ IF is_retryable_error(f.msg) /\ query_attempts_remain(q_attempt)
       THEN /\ qSleeps' = qSleeps + 1
            /\ qSleepTotal' = qSleepTotal + Delay(q_attempt)
            /\ q_attempt' = q_attempt + 1
            /\ qAttempts' = qAttempts + 1
            /\ qpc' = "acquire"
            /\ qDeadAtStart' = DeadHandle
            /\ ConnectBegin
            /\ UNCHANGED q_err
       ELSE /\ qpc' = "raised"
            /\ q_err' = f
            /\ ConnIdle
            /\ UNCHANGED <<qSleeps, qSleepTotal, q_attempt, qAttempts, qDeadAtStart>>
\* mutant of ExecHandleFailure: the classifier is not consulted, every driver
\* error is retried while attempts remain
ExecHandleFailureUnclassified(f, origin) ==
    /\ qAcqFailed' = (qAcqFailed \/ origin = "acquire")
    /\ qLast' = Caught(f, origin)
    /\ IF f.type = "SfError" /\ query_attempts_remain(q_attempt)
       THEN /\ qSleeps' = qSleeps + 1
            /\ qSleepTotal' = qSleepTotal + Delay(q_attempt)
            /\ q_attempt' = q_attempt + 1
            /\ qAttempts' = qAttempts + 1
            /\ qpc' = "acquire"
            /\ qDeadAtStart' = DeadHandle
            /\ ConnectBegin
            /\ UNCHANGED q_err
       ELSE /\ qpc' = "raised"
            /\ q_err' = f
            /\ ConnIdle
            /\ UNCHANGED <<qSleeps, qSleepTotal, q_attempt, qAttempts, qDeadAtStart>>

\* mutant of ExecHandleFailure: conn is acquired once, a retry after a failed
\* run goes straight to the statement
ExecHandleFailureReuse(f, origin) ==
    /\ qAcqFailed' = (qAcqFailed \/ origin = "acquire")
    /\ qLast' = Caught(f, origin)
    /\ IF f.type = "SfError" /\ is_retryable_error(f.msg) /\ query_attempts_remain(q_attempt)
       THEN /\ qSleeps' = qSleeps + 1
            /\ qSleepTotal' = qSleepTotal + Delay(q_attempt)
            /\ q_attempt' = q_attempt + 1
            /\ qAttempts' = qAttempts + 1
            /\ qDeadAtStart' = DeadHandle
            /\ IF origin = "run"
               THEN qpc' = "run" /\ ConnIdle
               ELSE qpc' = "acquire" /\ ConnectBegin
            /\ UNCHANGED q_err
       ELSE /\ qpc' = "raised"
            /\ q_err' = f
            /\ ConnIdle
            /\ UNCHANGED <<qSleeps, qSleepTotal, q_attempt, qAttempts, qDeadAtStart>>

\* the except clause of lines 157-172 for failure f of attempt q_attempt, and
\* the loop of line 138 going on: to the next attempt, or, were the range
\* exhausted after a sleep, to the end of the function, which returns None
ExecHandleFailure(f, origin) ==
    /\ qAcqFailed' = (qAcqFailed \/ origin = "acquire")
    /\ qLast' = Caught(f, origin)
    /\ IF f.type = "SfError" /\ is_retryable_error(f.msg) /\ query_attempts_remain(q_attempt)
       THEN \* time.sleep(delay)
            /\ qSleeps' = qSleeps + 1
            /\ qSleepTotal' = qSleepTotal + Delay(q_attempt)
            /\ UNCHANGED q_err
            /\ IF q_attempt + 1 < max_attempts
               THEN /\ q_attempt' = q_attempt + 1
                    /\ qAttempts' = qAttempts + 1
                    /\ qpc' = "acquire"
                    /\ qDeadAtStart' = DeadHandle
                    /\ ConnectBegin
               ELSE /\ qpc' = "returned"
                    /\ ConnIdle
                    /\ UNCHANGED <<q_attempt, qAttempts, qDeadAtStart>>
       ELSE /\ qpc' = "raised"
            /\ q_err' = f
            /\ ConnIdle
            /\ UNCHANGED <<qSleeps, qSleepTotal, q_attempt, qAttempts, qDeadAtStart>>

\* line 140, conn = self.connect() returned
ExecAcquired ==
    /\ qpc = "acquire"
    /\ cpc = "returned"
    /\ q_conn' = _connection
    /\ qpc' = "run"
    /\ ConnIdle
    /\ UNCHANGED <<cfgVars, raceVars, closeVars, buildVars, docVars, cliVars, topVars, q_attempt, q_kind, q_fetch, q_rows, q_err,
                   qAttempts, qRuns, qSleeps, qSleepTotal, qConnTries, qAcqFailed,
                   qLast, qDeadAtStart, qOpenCursors, ansVars>>

\* line 140, conn = self.connect() raised inside the try block
ExecAcquireFailed ==
    /\ qpc = "acquire"
    /\ cpc = "raised"
    /\ ExecHandleFailure(c_err, "acquire")
    /\ UNCHANGED <<cfgVars, raceVars, closeVars, buildVars, docVars, cliVars, topVars, q_kind, q_fetch, q_conn, q_rows,
                   qRuns, qConnTries, qOpenCursors, ansVars>>

\* mutant of query_params: the request never carries a filter
query_params_unfiltered(question, document_id) ==
    [query |-> question,
     columns |-> <<"CHUNK_TEXT", "DOCUMENT_ID", "FILENAME", "CHUNK_INDEX">>,
     limit |-> top_k]

\* the request of lines 111-125
query_params(question, document_id) ==
    IF document_id # "None"
    THEN [query |-> question,
          columns |-> <<"CHUNK_TEXT", "DOCUMENT_ID", "FILENAME", "CHUNK_INDEX">>,
          filter |-> document_id, limit |-> top_k]
    ELSE [query |-> question,
          columns |-> <<"CHUNK_TEXT", "DOCUMENT_ID", "FILENAME", "CHUNK_INDEX">>,
          limit |-> top_k]

\* what the service may answer to a statement of each kind: no row or one;
\* the search statement carries the request built from the arguments of
\* answer_question
Responses(kind) ==
    CASE kind = "search" ->
             {<<>>} \cup {<<r>> : r \in SearchRows(query_params(a_question, a_document_id))}
      [] kind = "generate" -> {<<>>} \cup {<<r>> : r \in GenerateRows}
      [] OTHER -> {<<>>, <<Row("COUNT", ColStr(<<"1">>))>>}

\* mutant of run_result: the rows are fetched and returned whatever fetch is
run_result_fetched(fetch, rows) == [kind |-> "rows", rows |-> rows]

\* lines 148-155: cursor.fetchall() when fetch, else None
run_result(fetch, rows) ==
    IF fetch THEN [kind |-> "rows", rows |-> rows] ELSE NoRows

\* lines 141-155: a cursor is opened on conn and the statement runs on it;
\* the cursor is closed once the statement has succeeded (lines 150, 154),
\* and left as it is when cursor.execute or cursor.fetchall raises
ExecRun ==
    /\ qpc = "run"
    /\ qRuns' = qRuns + 1
    /\ \/ /\ q_conn \in alive
          /\ UNCHANGED qOpenCursors
          /\ \E rows \in Responses(q_kind) :
               q_rows' = run_result(q_fetch, rows)
          /\ documents' = IF q_kind = "insert"
                          THEN Append(documents, p_document_id) ELSE documents
          /\ qpc' = "returned"
          /\ UNCHANGED <<q_attempt, q_err, qAttempts, qSleeps, qSleepTotal,
                         qAcqFailed, qLast, qDeadAtStart, connVars>>
       \/ \E f \in StatementFailures(q_kind) :
          /\ ExecHandleFailure(f, "run")
          /\ qOpenCursors' = qOpenCursors + 1
          /\ UNCHANGED q_rows
          /\ \/ \* the statement was not applied
                UNCHANGED documents
             \/ \* the service applied the INSERT and the connection broke
                \* before the client had the answer
                /\ q_kind = "insert" /\ q_conn \in alive /\ f.msg = MsgReset
                /\ documents' = Append(documents, p_document_id)
    /\ UNCHANGED <<cfgVars, raceVars, closeVars, buildVars, p_pc, p_document_id, p_out, cliVars, topVars, q_kind,
                   q_fetch, q_conn, qConnTries, ansVars>>

\* a client calls execute_query()
CallExecute ==
    /\ op = "none"
    /\ op' = "execute"
    /\ UNCHANGED <<r_error, r_ret, k_pc, k_conn>>
    /\ \E fetch \in BOOLEAN : ExecBegin("statement", fetch)
    /\ UNCHANGED <<cfgVars, raceVars, closeVars, buildVars, docVars, cliVars, ansVars>>

\* execute_query() returns to the client, or raises
ExecDone ==
    /\ op = "execute"
    /\ qpc \in {"returned", "raised"}
    /\ op' = "none"
    /\ UNCHANGED <<r_error, r_ret, k_pc, k_conn>>
    /\ ExecIdle
    /\ UNCHANGED <<cfgVars, raceVars, closeVars, buildVars, docVars, cliVars, connVars, ansVars>>

(***************************************************************************)
(* RAGPipeline (retrieval.py)                                              *)
(***************************************************************************)
NotEnoughInformation == "I don't have enough information to answer this question. Please upload relevant documents first."
GenerationError == "I encountered an error while generating the answer. Please try again."
KeyError == [type |-> "KeyError", msg |-> <<>>]
NoAnswer == [answer |-> "", context |-> <<>>, metadata |-> [chunks_retrieved |-> 0]]

\* line 162: {k.upper(): v for k, v in r.items()}
RECURSIVE NormalizeFrom(_, _, _)
NormalizeFrom(r, i, acc) ==
    IF i > Len(r) THEN acc
    ELSE NormalizeFrom(r, i + 1, DictSet(acc, Upper(r[i].k), r[i].v))
Normalize(r) == NormalizeFrom(r, 1, <<>>)

\* the try block of _search, lines 143-171, on what execute_query returned
SearchBody(rows) ==
    IF Len(rows) > 0
    THEN LET search_results_json ==
                 IF DictHas(rows[1], "SEARCH_RESULTS")
                 THEN DictGet(rows[1], "SEARCH_RESULTS") ELSE ColNull
         IN  IF Truthy(search_results_json)
             THEN IF search_results_json.t # "str"
                  THEN \* line 148 slices the value: a mapping raises
                       [raised |-> TRUE, results |-> <<>>]
                  ELSE LET loaded == json_loads(search_results_json.text)
                       IN  IF loaded.raised \/ loaded.value.t # "object"
                           THEN [raised |-> TRUE, results |-> <<>>]
                           ELSE LET results ==
                                        IF "results" \in loaded.value.fields
                                        THEN loaded.value.results ELSE <<>>
                                IN  [raised |-> FALSE,
                                     results |-> [i \in 1..Len(results) |->
                                                    Normalize(results[i])]]
             ELSE [raised |-> FALSE, results |-> <<>>]
    ELSE [raised |-> FALSE, results |-> <<>>]

\* mutant of search: only the failures of execute_query are caught, a failure
\* of the parsing escapes
search_narrow(pc, rows) ==
    IF pc = "raised" THEN [raised |-> FALSE, results |-> <<>>]
    ELSE SearchBody(rows)

\* _search, lines 108-178, once its execute_query call has ended: the except
\* clause of lines 173-178 turns every exception into an empty list
search(pc, rows) ==
    IF pc = "raised" THEN [raised |-> FALSE, results |-> <<>>]
    ELSE LET body == SearchBody(rows)
         IN  IF body.raised THEN [raised |-> FALSE, results |-> <<>>] ELSE body

\* lines 214-221: the context parts, joined by the separator
RECURSIVE JoinParts(_, _)
JoinParts(parts, i) ==
    IF i > Len(parts) THEN <<>>
    ELSE IF i = Len(parts) THEN <<parts[i]>>
    ELSE <<parts[i], "---">> \o JoinParts(parts, i + 1)

\* mutant of construct_prompt: the prompt carries the number of prompts built
\* before it
construct_prompt_counting(question, search_results) ==
    [raised |-> FALSE,
     prompt |-> <<"system_instruction", Len(b_prompts), "CONTEXT:">>
                \o search_results \o <<"QUESTION:", question, "ANSWER:">>]

\* mutant of construct_prompt: the context parts are rendered last to first
construct_prompt_reversed(question, search_results) ==
    IF \E i \in 1..Len(search_results) :
          \E k \in {"FILENAME", "CHUNK_INDEX", "CHUNK_TEXT"} : ~DictHas(search_results[i], k)
    THEN [raised |-> TRUE, prompt |-> <<>>]
    ELSE LET n == Len(search_results)
             context_parts ==
                 [i \in 1..n |->
                    [document |-> DictGet(search_results[n + 1 - i], "FILENAME"),
                     chunk |-> DictGet(search_results[n + 1 - i], "CHUNK_INDEX"),
                     text |-> DictGet(search_results[n + 1 - i], "CHUNK_TEXT")]]
         IN  [raised |-> FALSE,
              prompt |-> <<"system_instruction", "CONTEXT:">>
                         \o JoinParts(context_parts, 1)
                         \o <<"QUESTION:", question, "ANSWER:">>]

\* _construct_prompt, lines 180-234
construct_prompt(question, search_results) ==
    IF \E i \in 1..Len(search_results) :
          \E k \in {"FILENAME", "CHUNK_INDEX", "CHUNK_TEXT"} : ~DictHas(search_results[i], k)
    THEN [raised |-> TRUE, prompt |-> <<>>]
    ELSE LET context_parts ==
                 [i \in 1..Len(search_results) |->
                    [document |-> DictGet(search_results[i], "FILENAME"),
                     chunk |-> DictGet(search_results[i], "CHUNK_INDEX"),
                     text |-> DictGet(search_results[i], "CHUNK_TEXT")]]
         IN  [raised |-> FALSE,
              prompt |-> <<"system_instruction", "CONTEXT:">>
                         \o JoinParts(context_parts, 1)
                         \o <<"QUESTION:", question, "ANSWER:">>]

\* mutant of GenerateBody: the column is read with .get and its absence is
\* not checked
GenerateBodyGet(rows) ==
    IF Len(rows) = 0
    THEN [raised |-> FALSE, answer |-> GenerationError]
    ELSE IF ~DictHas(rows[1], "ANSWER")
    THEN [raised |-> FALSE, answer |-> "None"]
    ELSE LET answer == DictGet(rows[1], "ANSWER")
         IN  IF answer.t # "str"
             THEN [raised |-> TRUE, answer |-> ""]
             ELSE [raised |-> FALSE, answer |-> answer.text[1]]

\* the try block of _generate_answer, lines 262-278
GenerateBody(rows) ==
    IF Len(rows) = 0 \/ ~DictHas(rows[1], "ANSWER")
    THEN [raised |-> FALSE, answer |-> GenerationError]
    ELSE LET answer == DictGet(rows[1], "ANSWER")
         IN  IF answer.t # "str"
             THEN \* len(answer) of line 272 raises on NULL
                  [raised |-> TRUE, answer |-> ""]
             ELSE [raised |-> FALSE, answer |-> answer.text[1]]

\* mutant of generate_answer: a failure of execute_query escapes
generate_answer_narrow(pc, rows) ==
    IF pc = "raised" THEN [raised |-> TRUE, answer |-> ""]
    ELSE LET body == GenerateBody(rows)
         IN  IF body.raised THEN [raised |-> FALSE, answer |-> GenerationError]
             ELSE body

\* _generate_answer, lines 246-282, once its execute_query call has ended
\* the except clause of lines 280-282 turns every exception into the
\* fallback text
generate_answer(pc, rows) ==
    IF pc = "raised" THEN [raised |-> FALSE, answer |-> GenerationError]
    ELSE LET body == GenerateBody(rows)
         IN  IF body.raised THEN [raised |-> FALSE, answer |-> GenerationError]
             ELSE body

\* mutant of no_evidence: tests for None, which _search never returns
no_evidence_none(search_results) == FALSE

\* line 67: if not search_results
no_evidence(search_results) == search_results = <<>>

\* an exception that leaves _search or _generate_answer
Escaped == [type |-> "Escaped", msg |-> <<>>]

\* no answer_question() frame
AnsIdle ==
    /\ a_stage' = "off"
    /\ a_question' = ""
    /\ a_document_id' = ""
    /\ a_results' = <<>>
    /\ a_prompt' = <<>>
    /\ a_out' = NoAnswer
    /\ a_exc' = NoFailure
    /\ searchCalls' = 0
    /\ genCalls' = 0
    /\ aSearchRows' = NoRows
    /\ aGenRows' = NoRows
    /\ aSearchErr' = NoLast
    /\ aGenErr' = NoLast

\* a client calls answer_question(question, document_id): line 65 calls
\* _search, which runs the search statement
CallAnswer ==
    /\ op = "none"
    /\ op' = "answer"
    /\ UNCHANGED <<r_error, r_ret, k_pc, k_conn>>
    /\ a_stage' = "search"
    /\ a_question' = "What are the action items?"
    /\ a_document_id' \in {"None", "d1"}
    /\ searchCalls' = 1
    /\ ExecBegin("search", TRUE)
    /\ UNCHANGED <<cfgVars, raceVars, closeVars, buildVars, docVars, cliVars, a_results, a_prompt, a_out, a_exc, genCalls,
                   aSearchRows, aGenRows, aSearchErr, aGenErr>>

\* lines 65-81: _search returns; on evidence the prompt is built and
\* _generate_answer runs the generation statement
SearchReturn ==
    /\ op = "answer"
    /\ a_stage = "search"
    /\ qpc \in {"returned", "raised"}
    /\ aSearchRows' = q_rows
    /\ aSearchErr' = IF qpc = "raised" THEN qLast ELSE NoLast
    /\ LET found == search(qpc, q_rows.rows)
           search_results == found.results
           built == construct_prompt(a_question, search_results)
       IN  /\ a_results' = search_results
           /\ IF found.raised
              THEN /\ a_stage' = "raised"
                   /\ a_exc' = Escaped
                   /\ ExecIdle
                   /\ UNCHANGED <<connVars, a_prompt, a_out, genCalls>>
              ELSE IF no_evidence(search_results)
              THEN /\ a_stage' = "returned"
                   /\ a_out' = [answer |-> NotEnoughInformation,
                                context |-> <<>>,
                                metadata |-> [chunks_retrieved |-> 0,
                                              search_method |-> "cortex_search_service"]]
                   /\ ExecIdle
                   /\ UNCHANGED <<connVars, a_prompt, a_exc, genCalls>>
              ELSE IF built.raised
              THEN /\ a_stage' = "raised"
                   /\ a_exc' = KeyError
                   /\ ExecIdle
                   /\ UNCHANGED <<connVars, a_prompt, a_out, genCalls>>
              ELSE /\ a_stage' = "generate"
                   /\ a_prompt' = built.prompt
                   /\ genCalls' = genCalls + 1
                   /\ ExecBegin("generate", TRUE)
                   /\ UNCHANGED <<a_out, a_exc>>
    /\ UNCHANGED <<cfgVars, raceVars, closeVars, buildVars, docVars, cliVars, topVars, a_question, a_document_id, searchCalls,
                   aGenRows, aGenErr>>

\* mutant of GenerateReturn: a fallback answer makes the generation run a
\* second time
GenerateReturnAgain ==
    /\ op = "answer"
    /\ a_stage = "generate"
    /\ qpc \in {"returned", "raised"}
    /\ aGenRows' = q_rows
    /\ aGenErr' = IF qpc = "raised" THEN qLast ELSE NoLast
    /\ LET generated == generate_answer(qpc, q_rows.rows)
       IN  IF generated.answer = GenerationError /\ genCalls < 2
           THEN /\ a_stage' = "generate"
                /\ genCalls' = genCalls + 1
                /\ ExecBegin("generate", TRUE)
                /\ UNCHANGED <<a_out, a_exc>>
           ELSE /\ a_stage' = "returned"
                /\ a_out' = [answer |-> generated.answer,
                             context |-> a_results,
                             metadata |-> [chunks_retrieved |-> Len(a_results),
                                           search_method |-> "cortex_search_service",
                                           top_k |-> top_k]]
                /\ ExecIdle
                /\ UNCHANGED <<a_exc, genCalls, connVars>>
    /\ UNCHANGED <<cfgVars, raceVars, closeVars, buildVars, docVars, cliVars, topVars, a_question, a_document_id,
                   a_results, a_prompt, searchCalls, aSearchRows, aSearchErr>>

\* lines 81-91: _generate_answer returns and the result is built
GenerateReturn ==
    /\ op = "answer"
    /\ a_stage = "generate"
    /\ qpc \in {"returned", "raised"}
    /\ aGenRows' = q_rows
    /\ aGenErr' = IF qpc = "raised" THEN qLast ELSE NoLast
    /\ LET generated == generate_answer(qpc, q_rows.rows)
       IN  IF generated.raised
           THEN /\ a_stage' = "raised"
                /\ a_exc' = Escaped
                /\ UNCHANGED a_out
           ELSE /\ a_stage' = "returned"
                /\ a_out' = [answer |-> generated.answer,
                             context |-> a_results,
                             metadata |-> [chunks_retrieved |-> Len(a_results),
                                           search_method |-> "cortex_search_service",
                                           top_k |-> top_k]]
                /\ UNCHANGED a_exc
    /\ ExecIdle
    /\ UNCHANGED <<cfgVars, raceVars, closeVars, buildVars, docVars, cliVars, topVars, connVars, a_question, a_document_id,
                   a_results, a_prompt, searchCalls, genCalls, aSearchRows, aSearchErr>>

\* answer_question() returns to the client, or raises
AnswerDone ==
    /\ op = "answer"
    /\ a_stage \in {"returned", "raised"}
    /\ op' = "none"
    /\ UNCHANGED <<r_error, r_ret, k_pc, k_conn>>
    /\ AnsIdle
    /\ UNCHANGED <<cfgVars, raceVars, closeVars, buildVars, docVars, cliVars, connVars, execVars>>

(***************************************************************************)
(* process_document (document_processor.py)                                *)
(***************************************************************************)
\* str(uuid.uuid4())
DocumentIds == {"d1"}
\* the content of the uploaded file: empty, blank, or text
Contents == {"", " ", "Action items: ship it"}
NoOut == [success |-> FALSE, message |-> "", document_id |-> ""]

\* content.strip()
strip(content) == IF content = " " THEN "" ELSE content

\* a client calls process_document(filename, content), lines 41-74: the
\* content is validated, an id is generated and the INSERT is handed to
\* execute_query.  One document is uploaded: no call is made once DOCUMENTS
\* holds a row.
CallProcess ==
    /\ op = "none"
    /\ documents = <<>>
    /\ op' = "process"
    /\ \E content \in Contents :
         IF content = "" \/ strip(content) = ""
         THEN /\ p_pc' = "returned"
              /\ p_document_id' = ""
              /\ p_out' = [success |-> FALSE, message |-> "Document content is empty",
                           document_id |-> ""]
              /\ UNCHANGED <<connVars, execVars>>
         ELSE /\ p_pc' = "insert"
              /\ p_document_id' \in DocumentIds
              /\ p_out' = NoOut
              /\ ExecBegin("insert", FALSE)
    /\ UNCHANGED <<cfgVars, raceVars, closeVars, buildVars, cliVars, documents, r_error, r_ret, k_pc, k_conn, ansVars>>

\* lines 73-90: execute_query returned, or raised and the exception is caught
ProcessReturn ==
    /\ op = "process"
    /\ p_pc = "insert"
    /\ qpc \in {"returned", "raised"}
    /\ p_pc' = "returned"
    /\ p_out' = IF qpc = "returned"
                THEN [success |-> TRUE, message |-> "Document uploaded successfully",
                      document_id |-> p_document_id]
                ELSE [success |-> FALSE, message |-> "Error", document_id |-> ""]
    /\ ExecIdle
    /\ UNCHANGED <<cfgVars, raceVars, closeVars, buildVars, cliVars, topVars, connVars, documents, p_document_id,
                   ansVars>>

\* process_document() returns its tuple.  The exploration ends with the call
\* that left DOCUMENTS with more than one row: what the client does next does
\* not depend on the number of rows.
ProcessDone ==
    /\ op = "process"
    /\ p_pc = "returned"
    /\ Len(documents) <= 1
    /\ op' = "none"
    /\ p_pc' = "off"
    /\ p_document_id' = ""
    /\ p_out' = NoOut
    /\ UNCHANGED <<cfgVars, raceVars, closeVars, buildVars, cliVars, documents, r_error, r_ret, k_pc, k_conn, connVars,
                   execVars, ansVars>>

(***************************************************************************)
(* _construct_prompt() called on its own, twice on the same arguments      *)
(***************************************************************************)
Questions == {"What are the action items?", "Who attended?"}

\* lists of records as _search returns them
PromptInputs == {[i \in 1..Len(l) |-> Normalize(l[i])] : l \in ResultLists}

CallPrompt ==
    /\ op = "none"
    /\ op' = "prompt"
    /\ \E question \in Questions, search_results \in PromptInputs :
         /\ b_question' = question
         /\ b_results' = search_results
         /\ b_prompts' = <<construct_prompt(question, search_results)>>
    /\ UNCHANGED <<cfgVars, raceVars, closeVars, docVars, cliVars, r_error, r_ret, k_pc, k_conn, connVars,
                   execVars, ansVars>>

PromptAgain ==
    /\ op = "prompt"
    /\ Len(b_prompts) = 1
    /\ b_prompts' = Append(b_prompts, construct_prompt(b_question, b_results))
    /\ UNCHANGED <<cfgVars, raceVars, closeVars, docVars, cliVars, topVars, connVars, execVars, ansVars,
                   b_question, b_results>>

PromptDone ==
    /\ op = "prompt"
    /\ Len(b_prompts) = 2
    /\ op' = "none"
    /\ b_question' = ""
    /\ b_results' = <<>>
    /\ b_prompts' = <<>>
    /\ UNCHANGED <<cfgVars, raceVars, closeVars, docVars, cliVars, r_error, r_ret, k_pc, k_conn, connVars,
                   execVars, ansVars>>

(***************************************************************************)
(* close() and cursor()                                                    *)
(***************************************************************************)
\* what self._connection.close() may raise
CloseFailures == {Failure("SfError", MsgReset), Failure("Other", MsgReset)}

\* mutant of close_except: only driver errors are caught
close_except_driver(f) == IF f.type = "SfError" THEN "returned" ELSE "raised"

\* lines 207-208, except Exception: whatever closing raised is logged
close_except(f) == "returned"

\* close(), lines 202-210: the handle held is closed, or closing it raises
\* and the exception is logged; either way the finally clause forgets the
\* handle.  Without a handle close() does nothing.
CallClose ==
    /\ op = "none"
    /\ op' = "close"
    /\ x_held' = _connection
    /\ IF _connection # NoHandle
       THEN /\ \/ /\ x_e' = NoFailure
                  /\ x_pc' = "returned"
               \/ \E f \in CloseFailures :
                  /\ x_e' = f
                  /\ x_pc' = close_except(f)
            /\ _connection' = NoHandle
            /\ alive' = alive \ {_connection}
       ELSE /\ x_e' = NoFailure
            /\ x_pc' = "returned"
            /\ UNCHANGED <<_connection, alive>>
    /\ UNCHANGED <<cfgVars, raceVars, buildVars, docVars, issued, r_error, r_ret, k_pc, k_conn, connVars, execVars,
                   ansVars>>

\* close() returns, or raises
CloseDone ==
    /\ op = "close"
    /\ op' = "none"
    /\ x_pc' = "off"
    /\ x_held' = NoHandle
    /\ x_e' = NoFailure
    /\ UNCHANGED <<cfgVars, raceVars, buildVars, docVars, cliVars, r_error, r_ret, k_pc, k_conn, connVars, execVars,
                   ansVars>>

\* a client enters "with client.cursor()": line 222 calls connect()
CallCursor ==
    /\ op = "none"
    /\ op' = "cursor"
    /\ ConnectBegin
    /\ UNCHANGED <<cfgVars, raceVars, closeVars, buildVars, docVars, cliVars, r_error, r_ret, k_pc, k_conn, execVars, ansVars>>

\* lines 222-225: connect() returned, the cursor is opened on conn and yielded
CursorOpen ==
    /\ op = "cursor"
    /\ k_pc = "off"
    /\ cpc = "returned"
    /\ k_conn' = _connection
    /\ k_pc' = "open"
    /\ ConnIdle
    /\ UNCHANGED <<cfgVars, raceVars, closeVars, buildVars, docVars, cliVars, op, r_error, r_ret, execVars, ansVars>>

\* lines 226-227: the body of the with statement ends, normally or by an
\* exception, and the finally clause closes the cursor
CursorExit ==
    /\ op = "cursor"
    /\ k_pc = "open"
    /\ k_pc' = "closed"
    /\ UNCHANGED <<cfgVars, raceVars, closeVars, buildVars, docVars, cliVars, op, r_error, r_ret, k_conn, connVars, execVars,
                   ansVars>>

\* the with statement is left, or connect() raised out of cursor()
CursorDone ==
    /\ op = "cursor"
    /\ k_pc = "closed" \/ (k_pc = "off" /\ cpc = "raised")
    /\ op' = "none"
    /\ k_pc' = "off"
    /\ k_conn' = NoHandle
    /\ ConnIdle
    /\ UNCHANGED <<cfgVars, raceVars, closeVars, buildVars, docVars, cliVars, r_error, r_ret, execVars, ansVars>>

(***************************************************************************)
(* _is_retryable_error() called on its own                                 *)
(***************************************************************************)
CallClassify ==
    /\ op = "none"
    /\ op' = "classify"
    /\ \E error \in ClassifierFailures :
         /\ r_error' = error
         /\ r_ret' = is_retryable_error(error.msg)
    /\ UNCHANGED <<cfgVars, raceVars, closeVars, buildVars, docVars, cliVars, connVars, execVars, ansVars, k_pc, k_conn>>

ClassifyDone ==
    /\ op = "classify"
    /\ op' = "none"
    /\ r_error' = NoFailure
    /\ r_ret' = FALSE
    /\ UNCHANGED <<cfgVars, raceVars, closeVars, buildVars, docVars, cliVars, connVars, execVars, ansVars, k_pc, k_conn>>

(***************************************************************************)
(* The service drops a connection.                                         *)
(***************************************************************************)
KillConnection ==
    /\ _connection \in alive
    /\ alive' = alive \ {_connection}
    /\ UNCHANGED <<cfgVars, raceVars, closeVars, buildVars, docVars, _connection, issued, topVars, connVars,
                   execVars, ansVars>>

Init ==
    /\ max_attempts \in 1..MaxAttempts
    /\ \E p \in RetryDelays : initial_delay = p[1] /\ backoff_factor = p[2]
    /\ _connection = NoHandle
    /\ alive = {}
    /\ issued = 0
    /\ op = "none" /\ r_error = NoFailure /\ r_ret = FALSE
    /\ k_pc = "off" /\ k_conn = NoHandle
    /\ x_pc = "off" /\ x_held = NoHandle /\ x_e = NoFailure
    /\ t_pc = [t \in Threads |-> "off"] /\ t_attempt = [t \in Threads |-> 0]
    /\ t_made = [t \in Threads |-> NoHandle] /\ t_ret = [t \in Threads |-> NoHandle]
    /\ b_question = "" /\ b_results = <<>> /\ b_prompts = <<>>
    /\ documents = <<>> /\ p_pc = "off" /\ p_document_id = "" /\ p_out = NoOut
    /\ cpc = "off" /\ c_attempt = 0 /\ c_err = NoFailure
    /\ connTries = 0 /\ cSleeps = 0 /\ cSleepTotal = 0 /\ cProbeOk = FALSE
    /\ cLastFail = NoFailure
    /\ qpc = "off" /\ q_attempt = 0 /\ q_kind = "none" /\ q_fetch = FALSE
    /\ q_conn = NoHandle /\ q_rows = NoRows /\ q_err = NoFailure
    /\ qAttempts = 0 /\ qRuns = 0 /\ qSleeps = 0 /\ qSleepTotal = 0 /\ qConnTries = 0
    /\ qDeadAtStart = NoHandle /\ qOpenCursors = 0
    /\ qAcqFailed = FALSE /\ qLast = NoLast
    /\ a_stage = "off" /\ a_question = "" /\ a_document_id = "" /\ a_results = <<>>
    /\ a_prompt = <<>> /\ a_out = NoAnswer /\ a_exc = NoFailure
    /\ searchCalls = 0 /\ genCalls = 0 /\ aSearchRows = NoRows /\ aGenRows = NoRows
    /\ aSearchErr = NoLast /\ aGenErr = NoLast

Next ==
    \/ CallConnect
    \/ ConnectProbe
    \/ ConnectAttempt
    \/ ConnectDone
    \/ CallExecute
    \/ ExecAcquired
    \/ ExecAcquireFailed
    \/ ExecRun
    \/ ExecDone
    \/ CallAnswer
    \/ SearchReturn
    \/ GenerateReturn
    \/ AnswerDone
    \/ CallProcess
    \/ ProcessReturn
    \/ ProcessDone
    \/ CallPrompt
    \/ PromptAgain
    \/ PromptDone
    \/ CallClose
    \/ CloseDone
    \/ CallCursor
    \/ CursorOpen
    \/ CursorExit
    \/ CursorDone
    \/ CallClassify
    \/ ClassifyDone
    \/ KillConnection

Spec == Init /\ [][Next]_vars

\* a client that calls execute_query, directly or through process_document,
\* besides connect, cursor and close, while the service may drop the
\* connection
ExecNext ==
    \/ CallExecute
    \/ ExecAcquired
    \/ ExecAcquireFailed
    \/ ExecRun
    \/ ExecDone
    \/ CallProcess
    \/ ProcessReturn
    \/ ProcessDone
    \/ CallConnect
    \/ ConnectProbe
    \/ ConnectAttempt
    \/ ConnectDone
    \/ CallCursor
    \/ CursorOpen
    \/ CursorExit
    \/ CursorDone
    \/ CallClose
    \/ CloseDone
    \/ KillConnection

\* the calls are synchronous and blocking, and every remote call (probe,
\* connection attempt, statement run) returns or fails: no step of connect or
\* of execute_query is put off for ever
FairSpec ==
    /\ Init /\ [][ExecNext]_vars
    /\ WF_vars(ConnectProbe)
    /\ WF_vars(ConnectAttempt)
    /\ WF_vars(ExecAcquired)
    /\ WF_vars(ExecAcquireFailed)
    /\ WF_vars(ExecRun)

(***************************************************************************)
(* Two threads of a host that does not serialize its calls, both inside    *)
(* connect() on the one SnowflakeClient (lines 45-56: every SnowflakeClient *)
(* () is the same object).  A thread is interrupted between, not within,   *)
(* the steps below; a remote call and the assignment of what it returned   *)
(* are two steps.                                                          *)
(***************************************************************************)
\* two threads call connect() while no handle is held
CallRace ==
    /\ op = "none"
    /\ _connection = NoHandle
    /\ op' = "race"
    /\ t_pc' = [t \in Threads |-> "enter"]
    /\ UNCHANGED <<t_attempt, t_made, t_ret>>
    /\ UNCHANGED <<cfgVars, closeVars, buildVars, docVars, cliVars, r_error, r_ret, k_pc, k_conn,
                   connVars, execVars, ansVars>>

\* line 68: if self._connection is not None
RaceEnter(t) ==
    /\ t_pc[t] = "enter"
    /\ t_pc' = [t_pc EXCEPT ![t] = IF _connection # NoHandle THEN "probe" ELSE "try"]
    /\ UNCHANGED <<t_attempt, t_made, t_ret>>
    /\ UNCHANGED <<cfgVars, closeVars, buildVars, docVars, cliVars, topVars, connVars, execVars, ansVars>>

\* line 71: the probe runs on the handle held, and succeeds or raises
RaceProbe(t) ==
    /\ t_pc[t] = "probe"
    /\ \/ /\ _connection \in alive
          /\ t_pc' = [t_pc EXCEPT ![t] = "return"]
       \/ t_pc' = [t_pc EXCEPT ![t] = "drop"]
    /\ UNCHANGED <<t_attempt, t_made, t_ret>>
    /\ UNCHANGED <<cfgVars, closeVars, buildVars, docVars, cliVars, topVars, connVars, execVars, ansVars>>

\* line 76: self._connection = None
RaceDrop(t) ==
    /\ t_pc[t] = "drop"
    /\ t_pc' = [t_pc EXCEPT ![t] = "try"]
    /\ _connection' = NoHandle
    /\ UNCHANGED <<alive, issued>>
    /\ UNCHANGED <<t_attempt, t_made, t_ret>>
    /\ UNCHANGED <<cfgVars, closeVars, buildVars, docVars, topVars, connVars, execVars, ansVars>>

\* line 97, the call: snowflake.connector.connect returns a new handle, or
\* raises and the except clause of lines 102-113 sleeps or re-raises
RaceAttempt(t) ==
    /\ t_pc[t] = "try"
    /\ \/ /\ issued < MaxHandles
          /\ issued' = issued + 1
          /\ alive' = alive \cup {issued + 1}
          /\ t_made' = [t_made EXCEPT ![t] = issued + 1]
          /\ t_pc' = [t_pc EXCEPT ![t] = "store"]
          /\ UNCHANGED t_attempt
       \/ \E f \in ConnectFailures :
          /\ IF f.type = "SfError" /\ connect_attempts_remain(t_attempt[t])
             THEN /\ t_attempt' = [t_attempt EXCEPT ![t] = t_attempt[t] + 1]
                  /\ UNCHANGED t_pc
             ELSE /\ t_pc' = [t_pc EXCEPT ![t] = "raised"]
                  /\ UNCHANGED t_attempt
          /\ UNCHANGED <<alive, issued, t_made>>
    /\ UNCHANGED <<_connection, t_ret>>
    /\ UNCHANGED <<cfgVars, closeVars, buildVars, docVars, topVars, connVars, execVars, ansVars>>

\* line 97, the assignment: self._connection = <the handle returned>
RaceStore(t) ==
    /\ t_pc[t] = "store"
    /\ _connection' = t_made[t]
    /\ t_pc' = [t_pc EXCEPT ![t] = "return"]
    /\ UNCHANGED <<alive, issued>>
    /\ UNCHANGED <<t_attempt, t_made, t_ret>>
    /\ UNCHANGED <<cfgVars, closeVars, buildVars, docVars, topVars, connVars, execVars, ansVars>>

\* mutant of race_return: connect returns the handle it established itself
race_return_own(t) == IF t_made[t] # NoHandle THEN t_made[t] ELSE _connection

\* lines 72 and 100: return self._connection
race_return(t) == _connection

RaceReturn(t) ==
    /\ t_pc[t] = "return"
    /\ t_ret' = [t_ret EXCEPT ![t] = race_return(t)]
    /\ t_pc' = [t_pc EXCEPT ![t] = "returned"]
    /\ UNCHANGED <<t_attempt, t_made>>
    /\ UNCHANGED <<cfgVars, closeVars, buildVars, docVars, cliVars, topVars, connVars, execVars, ansVars>>

\* both calls have ended
RaceDone ==
    /\ op = "race"
    /\ \A t \in Threads : t_pc[t] \in {"returned", "raised"}
    /\ op' = "none"
    /\ t_pc' = [t \in Threads |-> "off"]
    /\ t_attempt' = [t \in Threads |-> 0]
    /\ t_made' = [t \in Threads |-> NoHandle]
    /\ t_ret' = [t \in Threads |-> NoHandle]
    /\ UNCHANGED <<cfgVars, closeVars, buildVars, docVars, cliVars, r_error, r_ret, k_pc, k_conn,
                   connVars, execVars, ansVars>>

RaceNext ==
    \/ CallRace
    \/ \E t \in Threads : RaceEnter(t)
    \/ \E t \in Threads : RaceProbe(t)
    \/ \E t \in Threads : RaceDrop(t)
    \/ \E t \in Threads : RaceAttempt(t)
    \/ \E t \in Threads : RaceStore(t)
    \/ \E t \in Threads : RaceReturn(t)
    \/ RaceDone
    \/ KillConnection

RaceSpec == Init /\ [][RaceNext]_vars

(***************************************************************************)
(* Claims                                                                  *)
(***************************************************************************)

\* C1: with a usable connection (no acquire of the call failed), when every
\* run of the statement failed with a driver error the classifier marks
\* Retryable, execute_query has run the statement exactly max_attempts times
\* when it raises, and what it raises is the failure of the last run.
C1_RetryableExhaustion ==
    /\ qRuns <= max_attempts
    /\ (qpc = "raised" /\ ~qAcqFailed /\ q_err.type = "SfError"
          /\ is_retryable_error(q_err.msg))
        => /\ qRuns = max_attempts
           /\ qLast = Caught(q_err, "run")
           /\ q_err \in StatementFailures(q_kind)

\* three Retryable failures in a row, three attempts allowed
C1_Witness ==
    /\ op = "execute" /\ qpc = "raised" /\ ~qAcqFailed
    /\ q_err = Failure("SfError", MsgReset)
    /\ max_attempts = 3 /\ qRuns = 3

\* C2: a statement failure classified Fatal ends the call at once: the call
\* has raised that failure, no sleep followed the failed attempt, and when it
\* was the first attempt the statement has run exactly once, whatever
\* max_attempts is.
C2_FatalEndsCall ==
    (qpc # "off" /\ qLast.origin = "run" /\ qLast.f.type = "SfError"
       /\ ~is_retryable_error(qLast.f.msg))
      => /\ qpc = "raised"
         /\ q_err = qLast.f
         /\ qSleeps = qAttempts - 1
         /\ (qAttempts = 1 => (qRuns = 1 /\ qSleeps = 0 /\ qSleepTotal = 0))

\* the first run fails with "invalid identifier" while three attempts are allowed
C2_Witness ==
    /\ qpc = "raised" /\ qLast = Caught(Failure("SfError", MsgInvalid), "run")
    /\ qRuns = 1 /\ qAttempts = 1 /\ max_attempts = 3

\* C3: in connect and in execute_query every sleep that follows failed attempt
\* i (zero-based) lasts initial_delay * backoff_factor^i, and no sleep is taken
\* before the first attempt: sleeps never outnumber the attempts made.
C3_BackoffDelays ==
    [][/\ (cSleeps' = cSleeps + 1)
            => (cSleepTotal' - cSleepTotal = initial_delay * Pow(backoff_factor, connTries))
       /\ (qSleeps' = qSleeps + 1)
            => (qSleepTotal' - qSleepTotal = initial_delay * Pow(backoff_factor, qAttempts - 1))
       /\ cSleeps' <= connTries'
       /\ (cSleeps' = cSleeps \/ cSleeps' = cSleeps + 1 \/ cSleeps' = 0)
       /\ (qAttempts' > 0 => qSleeps' = qAttempts' - 1)
       /\ (cSleeps' = cSleeps => cSleepTotal' = cSleepTotal)
       /\ (qSleeps' = qSleeps => qSleepTotal' = qSleepTotal)]_vars

\* execute_query has slept twice (2, then 2*3) and the connect of its third
\* attempt has slept twice as well
C3_Witness ==
    /\ initial_delay = 2 /\ backoff_factor = 3
    /\ qSleeps = 2 /\ qSleepTotal = 8
    /\ cSleeps = 2 /\ cSleepTotal = 8

\* C4: when connect holds no usable handle and every connection attempt fails
\* with a driver error, connect has made exactly max_attempts attempts when it
\* raises, raises the failure of the last attempt, and holds no handle; it
\* returns a handle only when the probe or an attempt succeeded.
C4_ConnectExhaustion ==
    /\ connTries <= max_attempts
    /\ (cpc = "raised" /\ c_err.type = "SfError")
        => /\ connTries = max_attempts
           /\ c_err = cLastFail
           /\ _connection = NoHandle
           /\ ~cProbeOk
    /\ (cpc = "returned" /\ ~cProbeOk)
        => (connTries >= 1 /\ _connection # NoHandle /\ _connection = issued)

\* three connection attempts fail with "network unreachable"
C4_Witness ==
    /\ op = "connect" /\ cpc = "raised" /\ max_attempts = 3 /\ connTries = 3
    /\ c_err = Failure("SfError", MsgNetwork)

\* C5 as stated: a failure that connect raised after exhausting its attempts is
\* never retried by execute_query, so one execute_query call makes at most
\* max_attempts connection attempts.
C5_AcquireFailureNotRetried ==
    /\ qConnTries <= max_attempts
    /\ (qpc # "off" /\ qLast.origin = "acquire" /\ qLast.f.type = "SfError")
        => qpc = "raised"

\* C5 amended: execute_query classifies the failure that connect raised by its
\* message, like a statement failure: a Fatal message ends the call at once, a
\* Retryable one (such as "network unreachable") is retried while attempts
\* remain, so one call makes at most max_attempts * max_attempts connection
\* attempts.
C5_AcquireFailureClassified ==
    /\ qConnTries <= max_attempts * max_attempts
    /\ (qpc # "off" /\ qLast.origin = "acquire" /\ qLast.f.type = "SfError"
          /\ ~is_retryable_error(qLast.f.msg))
        => (qpc = "raised" /\ q_err = qLast.f)
    /\ (qpc = "raised" /\ qLast.origin = "acquire" /\ qLast.f.type = "SfError"
          /\ is_retryable_error(qLast.f.msg))
        => qAttempts = max_attempts

\* every acquire of a call with three attempts fails three times
C5_Witness ==
    /\ max_attempts = 3 /\ qConnTries = 9 /\ qpc = "raised"
    /\ q_err = Failure("SfError", MsgNetwork)

\* C6 as stated: when the connection attempts were exhausted or a statement
\* failed with a Fatal error during answer_question, answer_question raises.
C6_FatalFailuresPropagate ==
    (a_stage \in {"returned", "raised"}
       /\ \E e \in {aSearchErr, aGenErr} :
            \/ e.origin = "acquire"
            \/ (e.origin = "run" /\ e.f.type = "SfError" /\ ~is_retryable_error(e.f.msg)))
      => a_stage = "raised"

\* C6 amended: such a failure does not leave answer_question: raised during
\* the search it gives the no-evidence result, raised during the generation
\* it gives a result whose answer is the fixed fallback text; answer_question
\* raises only when the prompt cannot be built.
C6_FailuresAbsorbed ==
    /\ (a_stage # "off" /\ aSearchErr # NoLast)
        => /\ a_stage = "returned"
           /\ a_out.answer = NotEnoughInformation
           /\ a_out.context = <<>>
    /\ (a_stage # "off" /\ aGenErr # NoLast)
        => /\ a_stage = "returned"
           /\ a_out.answer = GenerationError
           /\ a_out.context = a_results
    /\ (a_stage = "raised")
        => (a_exc = KeyError /\ aSearchErr = NoLast /\ aGenErr = NoLast)

\* the connection attempts are exhausted during the generation
C6_Witness ==
    /\ a_stage = "returned" /\ aGenErr.origin = "acquire"
    /\ aGenErr.f = Failure("SfError", MsgAuth)
    /\ a_out.answer = GenerationError

\* C7: when _search returns an empty list, answer_question returns the fixed
\* not-enough-information text with an empty context and chunks_retrieved = 0,
\* and _generate_answer has not been called; the generation runs only on
\* evidence.
C7_NoEvidenceShortCircuit ==
    /\ (a_stage \in {"returned", "raised"} /\ a_results = <<>>)
        => /\ a_stage = "returned"
           /\ a_out.answer = NotEnoughInformation
           /\ a_out.context = <<>>
           /\ a_out.metadata.chunks_retrieved = 0
           /\ genCalls = 0
    /\ (a_stage = "generate" \/ genCalls > 0) => a_results # <<>>

\* the search statement returned no row
C7_Witness ==
    /\ a_stage = "returned" /\ a_results = <<>> /\ genCalls = 0
    /\ aSearchRows = [kind |-> "rows", rows |-> <<>>]

\* C8: on evidence the result's context is the list _search returned, record
\* for record in the same order, chunks_retrieved is its length, and the
\* prompt handed to the generation renders the records in that order, with
\* one separator between two records.
C8_OrderPreserved ==
    /\ (a_stage = "returned" /\ a_results # <<>>)
        => /\ a_out.context = a_results
           /\ a_out.metadata.chunks_retrieved = Len(a_results)
    /\ (a_stage \in {"generate", "returned"} /\ a_results # <<>>)
        => /\ Len(a_prompt) = 2 + (2 * Len(a_results) - 1) + 3
           /\ \A i \in 1..Len(a_results) :
                a_prompt[2 * i + 1] =
                    [document |-> DictGet(a_results[i], "FILENAME"),
                     chunk |-> DictGet(a_results[i], "CHUNK_INDEX"),
                     text |-> DictGet(a_results[i], "CHUNK_TEXT")]
           /\ \A i \in 1..(Len(a_results) - 1) : a_prompt[2 * i + 2] = "---"

\* two different records were found and the answer was generated
C8_Witness ==
    /\ a_stage = "returned" /\ Len(a_results) = 2 /\ genCalls = 1
    /\ DictGet(a_results[1], "CHUNK_TEXT") = "beta"
    /\ DictGet(a_results[2], "CHUNK_TEXT") = "alpha"

\* C9: _generate_answer never lets an exception out: when its execute_query
\* raised, returned no row, or returned a row without the ANSWER column, the
\* answer is the fixed fallback text and answer_question still returns
\* chunks_retrieved equal to the number of search results.
C9_GenerationFailsSoftly ==
    /\ (a_stage \in {"returned", "raised"} /\ genCalls = 1
          /\ (\/ aGenErr # NoLast
              \/ aGenRows.rows = <<>>
              \/ ~DictHas(aGenRows.rows[1], "ANSWER")))
        => /\ a_stage = "returned"
           /\ a_out.answer = GenerationError
           /\ Len(a_results) > 0
           /\ a_out.metadata.chunks_retrieved = Len(a_results)
    /\ (a_stage = "raised") => genCalls = 0

\* the generation statement returned a row without the ANSWER column
C9_Witness ==
    /\ a_stage = "returned" /\ genCalls = 1 /\ aGenErr = NoLast
    /\ aGenRows.rows = <<Row("OTHER", ColNull)>>
    /\ Len(a_results) = 2

\* C10: _search returns an empty list and does not raise when the statement
\* yields no row, when the SEARCH_RESULTS column is absent, NULL or empty, when
\* its text cannot be parsed, and when the service reports that the search
\* service does not exist.
C10_SearchDegradesToEmpty ==
    (a_stage \in {"generate", "returned", "raised"}
       /\ (\/ (aSearchErr # NoLast /\ Contains(<<"d", "o", "e", "s", " ", "n", "o", "t", " ", "e", "x", "i", "s", "t">>, Lower(aSearchErr.f.msg)))
           \/ (aSearchErr = NoLast /\ aSearchRows.rows = <<>>)
           \/ (aSearchErr = NoLast /\ aSearchRows.rows # <<>>
                 /\ \/ ~DictHas(aSearchRows.rows[1], "SEARCH_RESULTS")
                    \/ LET col == DictGet(aSearchRows.rows[1], "SEARCH_RESULTS")
                       IN  \/ col.t = "null"
                           \/ (col.t = "str" /\ col.text = EmptyText)
                           \/ (col.t = "str" /\ col.text # EmptyText
                                 /\ json_loads(col.text).raised))))
      => (a_results = <<>> /\ a_stage = "returned")

\* the search statement failed because the search service does not exist
C10_Witness ==
    /\ a_stage = "returned" /\ a_results = <<>>
    /\ aSearchErr = Caught(Failure("SfError", MsgNoIndex), "run")
\* C11: _is_retryable_error returns True exactly when the message of the
\* error, letters compared without regard to case, contains one of timeout,
\* connection, network, unavailable, reset, broken pipe; every other error
\* (authentication, authorization, malformed statement) gets False, and the
\* type of the error plays no part.
C11_ClassifierByKeyword ==
    (op = "classify")
      => LET msg == r_error.msg
             keywords == {<<"t", "i", "m", "e", "o", "u", "t">>,
                          <<"c", "o", "n", "n", "e", "c", "t", "i", "o", "n">>,
                          <<"n", "e", "t", "w", "o", "r", "k">>,
                          <<"u", "n", "a", "v", "a", "i", "l", "a", "b", "l", "e">>,
                          <<"r", "e", "s", "e", "t">>,
                          <<"b", "r", "o", "k", "e", "n", " ", "p", "i", "p", "e">>}
             matches == \E w \in keywords : \E k \in 0..(Len(msg) - Len(w)) :
                            \A i \in 1..Len(w) : LowerChar(msg[k + i]) = w[i]
         IN  /\ r_ret = matches
             /\ (msg \in {MsgReset, MsgNetwork, MsgBrokenPipe, MsgUnavailable, MsgTimeout})
                  => r_ret
             /\ (msg \in {MsgInvalid, MsgAuth, MsgPrivileges, MsgNoIndex, MsgTimedOut})
                  => ~r_ret

\* "Broken pipe", keyword matched only once the capital is lowered, raised as
\* an exception that is not a driver error
C11_Witness ==
    /\ op = "classify" /\ r_error = Failure("Other", MsgBrokenPipe) /\ r_ret
C13_ReacquirePerAttempt ==
    /\ (qpc = "acquire") => cpc # "off"
    /\ (qpc = "run") => (cpc = "off" /\ q_conn = _connection)
    /\ (qpc \in {"run", "returned"} /\ qDeadAtStart # NoHandle)
        => (q_conn # qDeadAtStart /\ q_conn > qDeadAtStart /\ q_conn = issued)
    /\ (qpc \in {"acquire", "run"} /\ qDeadAtStart # NoHandle)
        => qDeadAtStart \notin alive

\* the first attempt ran on handle 1, which died; the retry found it dead and
\* its statement succeeded on handle 2
C13_Witness ==
    /\ qpc = "returned" /\ q_attempt = 1 /\ qRuns = 2
    /\ qDeadAtStart = 1 /\ q_conn = 2
\* C14: every result answer_question returns, the no-evidence one as well as
\* the generated one, carries top_k in its metadata, equal to the configured
\* top_k.
C14_TopKInEveryResult ==
    (a_stage = "returned")
      => ("top_k" \in DOMAIN a_out.metadata /\ a_out.metadata.top_k = top_k)
\* C15: within one answer_question call _search is called exactly once and
\* first, with the search statement; _generate_answer is called at most once,
\* only after _search returned records and the prompt was built from them,
\* with the generation statement; a result with a non-empty context has been
\* through exactly one call of _generate_answer.
C15_StageOrder ==
    /\ (a_stage = "off") => (searchCalls = 0 /\ genCalls = 0)
    /\ (a_stage # "off") => searchCalls = 1
    /\ (a_stage = "search")
        => (genCalls = 0 /\ a_results = <<>> /\ a_prompt = <<>>
              /\ q_kind = "search" /\ qpc # "off")
    /\ genCalls <= 1
    /\ (genCalls = 1)
        => /\ a_stage \in {"generate", "returned"}
           /\ a_results # <<>>
           /\ a_prompt = construct_prompt(a_question, a_results).prompt
           /\ ~construct_prompt(a_question, a_results).raised
    /\ (a_stage = "generate") => (genCalls = 1 /\ q_kind = "generate" /\ qpc # "off")
    /\ (a_stage = "returned" /\ a_out.context # <<>>) => genCalls = 1
    /\ (a_stage = "returned" /\ a_out.context = <<>>) => genCalls = 0

\* search, prompt, generation: the generated text is returned with its context
C15_Witness ==
    /\ a_stage = "returned" /\ searchCalls = 1 /\ genCalls = 1
    /\ a_out.context # <<>> /\ a_out.answer = "generated"
\* C16: execute_query stops at the first run that succeeds: when it returns
\* after k runs failed with Retryable errors (k < max_attempts, each followed
\* by one sleep) the statement has run exactly k + 1 times, and the value
\* returned is the rows of that run when fetch is set and None otherwise.
C16_StopAtFirstSuccess ==
    (qpc = "returned")
      => /\ qRuns >= 1 /\ qRuns <= qAttempts /\ qAttempts <= max_attempts
         /\ qSleeps = qAttempts - 1
         /\ (~qAcqFailed) => (qRuns = qSleeps + 1 /\ qSleeps < max_attempts)
         /\ (qSleeps > 0)
              => (qLast.f.type = "SfError" /\ is_retryable_error(qLast.f.msg))
         /\ (qSleeps = 0) => qLast = NoLast
         /\ q_err = NoFailure
         /\ q_fetch => (q_rows.kind = "rows" /\ q_rows.rows \in Responses(q_kind))
         /\ (~q_fetch) => q_rows = NoRows

\* two runs fail with "Connection reset by peer", the third returns a row
C16_Witness ==
    /\ qpc = "returned" /\ max_attempts = 3 /\ qRuns = 3 /\ ~qAcqFailed
    /\ qLast = Caught(Failure("SfError", MsgReset), "run")
    /\ q_fetch /\ Len(q_rows.rows) = 1
\* C17 as stated: with max_attempts = 3, when three connection attempts in a
\* row fail, connect raises after exactly 3 attempts, having slept
\* d * (1 + f + f^2) in total, d = initial_delay and f = backoff_factor.
C17_TotalSleepThreeTerms ==
    (cpc = "raised" /\ c_err.type = "SfError" /\ max_attempts = 3)
      => /\ connTries = 3
         /\ cSleepTotal = initial_delay
                            * (1 + backoff_factor + backoff_factor * backoff_factor)

\* C17 amended: with max_attempts = 3, when three connection attempts in a row
\* fail, connect raises after exactly 3 attempts, having slept twice, d after
\* the first attempt and d * f after the second, d * (1 + f) in total: no
\* sleep follows the last attempt.
C17_TotalSleepTwoTerms ==
    (cpc = "raised" /\ c_err.type = "SfError" /\ max_attempts = 3)
      => /\ connTries = 3
         /\ cSleeps = 2
         /\ cSleepTotal = initial_delay * (1 + backoff_factor)

\* three failures with d = 2 and f = 3: 2 + 6 slept
C17_Witness ==
    /\ cpc = "raised" /\ c_err = Failure("SfError", MsgNetwork)
    /\ max_attempts = 3 /\ connTries = 3
    /\ initial_delay = 2 /\ backoff_factor = 3 /\ cSleepTotal = 8
\* C18: once process_document has inserted a document, a search whose
\* document_id argument is the id of that document returns no record of
\* another document: every record _search returns has DOCUMENT_ID equal to
\* the argument (the search service honouring the filter it is sent).
C18_FilterRoundTrip ==
    (a_stage \in {"generate", "returned", "raised"}
       /\ \E r \in 1..Len(documents) : documents[r] = a_document_id)
      => \A i \in 1..Len(a_results) :
            /\ DictHas(a_results[i], "DOCUMENT_ID")
            /\ DictGet(a_results[i], "DOCUMENT_ID") = a_document_id

\* document d1 was inserted and a search filtered on d1 returned two records
C18_Witness ==
    /\ a_stage = "returned" /\ documents = <<"d1">> /\ a_document_id = "d1"
    /\ Len(a_results) = 2
C20_ProbeThenReconnect ==
    /\ [](/\ (cpc = "probe") => (_connection # NoHandle /\ connTries = 0 /\ cSleeps = 0)
          /\ (cpc = "returned" /\ cProbeOk)
               => (_connection # NoHandle /\ connTries = 0 /\ cSleeps = 0)
          /\ (cpc = "try") => (_connection = NoHandle /\ ~cProbeOk)
          /\ (cpc = "raised") => (connTries >= 1 /\ ~cProbeOk))
    /\ [][(cpc = "probe" /\ cpc' # "probe")
            => \/ /\ cpc' = "returned" /\ cProbeOk'
                  /\ _connection' = _connection /\ issued' = issued
                  /\ alive' = alive
                  /\ connTries' = 0 /\ cSleeps' = 0
               \/ /\ cpc' = "try" /\ ~cProbeOk'
                  /\ _connection' = NoHandle /\ _connection \notin alive'
                  /\ connTries' = 0 /\ cSleeps' = 0]_vars

\* connect() was called holding handle 1, the probe succeeded and handle 1 is
\* returned
C20_Witness ==
    /\ op = "connect" /\ cpc = "returned" /\ cProbeOk
    /\ _connection = 1 /\ issued = 1 /\ connTries = 0 /\ cSleeps = 0
\* C21 as stated: every failure raised while execute_query acquires the
\* handle or runs the statement, whatever its exception type, is classified
\* by its message: a call that raised a Retryable failure had no attempt left,
\* and a Fatal failure is raised at once.
C21_ClassifiedWhateverType ==
    /\ (qpc = "raised" /\ is_retryable_error(q_err.msg)) => qAttempts = max_attempts
    /\ (qpc # "off" /\ qLast # NoLast /\ ~is_retryable_error(qLast.f.msg))
        => (qpc = "raised" /\ q_err = qLast.f)

\* C21 amended: a failure that is a snowflake.connector.Error is classified
\* by its message: Fatal, it is raised at once; Retryable, it is retried while
\* attempts remain and raised when none does.  A failure of any other
\* exception type is not caught: it leaves execute_query at once, whatever its
\* message, with no sleep and no further attempt.
C21_DriverFailuresClassified ==
    /\ (qpc = "raised" /\ q_err.type = "SfError" /\ is_retryable_error(q_err.msg))
        => (qAttempts = max_attempts /\ q_err = qLast.f)
    /\ (qpc # "off" /\ qLast.f.type = "SfError" /\ ~is_retryable_error(qLast.f.msg))
        => (qpc = "raised" /\ q_err = qLast.f)
    /\ (qpc # "off" /\ qLast.f.type = "Other")
        => (qpc = "raised" /\ q_err = qLast.f /\ qSleeps = qAttempts - 1)
    /\ (qpc \in {"acquire", "run", "returned"} /\ qLast # NoLast)
        => /\ qLast.f.type = "SfError" /\ is_retryable_error(qLast.f.msg)
           /\ qAttempts >= 2 /\ qAttempts <= max_attempts

\* the first run raises an exception that is not a driver error, with the
\* message "Connection reset by peer", while three attempts are allowed
C21_Witness ==
    /\ qpc = "raised" /\ qLast = Caught(Failure("Other", MsgReset), "run")
    /\ q_err = Failure("Other", MsgReset)
    /\ qAttempts = 1 /\ qRuns = 1 /\ qSleeps = 0 /\ max_attempts = 3
\* C22: when the search statement returns one row whose SEARCH_RESULTS column
\* holds an object with a results list of n records, as JSON text or as a
\* mapping already decoded, _search returns n records in the same order, every
\* field name upper-cased and every value unchanged.
C22_NormalizedRecords ==
    (a_stage \in {"generate", "returned", "raised"} /\ aSearchErr = NoLast
       /\ Len(aSearchRows.rows) = 1
       /\ DictHas(aSearchRows.rows[1], "SEARCH_RESULTS")
       /\ LET col == DictGet(aSearchRows.rows[1], "SEARCH_RESULTS")
          IN  \/ (col.t = "dict" /\ "results" \in col.value.fields)
              \/ (col.t = "str" /\ Len(col.text) = 2 /\ col.text[1] = "json"
                    /\ "results" \in col.text[2].fields))
      => LET col == DictGet(aSearchRows.rows[1], "SEARCH_RESULTS")
             sent == IF col.t = "dict" THEN col.value.results ELSE col.text[2].results
         IN  /\ Len(a_results) = Len(sent)
             /\ \A i \in 1..Len(sent) :
                  /\ Len(a_results[i]) = Len(sent[i])
                  /\ \A j \in 1..Len(sent[i]) :
                       /\ a_results[i][j].k = Upper(sent[i][j].k)
                       /\ a_results[i][j].v = sent[i][j].v
\* C23: provided each remote call returns or fails, every execute_query call
\* with max_attempts = m >= 1 ends: by then it has run the statement at most m
\* times and made at most m * m connection attempts, and it ends either by
\* raising or by returning what a successful run of the statement gave (the
\* rows, or None without fetch), the step that returns being such a run.
C23_ExecuteTerminates ==
    /\ []((qpc # "off")
            => /\ max_attempts >= 1
               /\ qRuns <= max_attempts /\ qAttempts <= max_attempts
               /\ qConnTries <= max_attempts * max_attempts)
    /\ []((qpc = "returned")
            => (qRuns >= 1 /\ q_err = NoFailure /\ q_conn # NoHandle
                  /\ qSleeps = qAttempts - 1))
    /\ []((qpc = "raised") => q_err # NoFailure)
    /\ [][(qpc # "returned" /\ qpc' = "returned")
            => /\ qpc = "run" /\ q_conn \in alive
               /\ qRuns' = qRuns + 1
               /\ \E rows \in Responses(q_kind) : q_rows' = run_result(q_fetch, rows)]_vars
    /\ (qpc \in {"acquire", "run"}) ~> (qpc \in {"returned", "raised"})

\* a call with three attempts ends by raising in its third attempt, after two
\* runs of the statement and nine connection attempts
C23_Witness ==
    /\ op = "execute" /\ qpc = "raised" /\ max_attempts = 3
    /\ qAttempts = 3 /\ qRuns = 2 /\ qConnTries = 9
\* C24: every cursor execute_query opened is closed by the time the call
\* returns or raises, on the failure and retry paths as on the success paths,
\* as the cursor of cursor() is closed when the with statement is left.
C24_CursorsClosed ==
    /\ (qpc \in {"returned", "raised"}) => qOpenCursors = 0
    /\ (op = "cursor" /\ k_pc = "off") => cpc # "off"
\* C25: one process_document call causes at most one row to be inserted into
\* DOCUMENTS, whatever remote failures and retries occur, also when a
\* Retryable failure is reported after the service applied the write: during
\* the call and when it returns, at most one row carries the id the call
\* generated.
C25_AtMostOneRow ==
    (op = "process" /\ p_document_id # "")
      => Cardinality({r \in 1..Len(documents) : documents[r] = p_document_id}) <= 1
\* C26: close() never raises and leaves the client without a handle, also
\* when closing the connection failed; a close() without a handle (such as a
\* second close()) changes nothing; and a connect() called without a handle
\* runs no probe and returns a handle newly issued by the service, never one
\* held before.
C26_CloseForgetsHandle ==
    /\ []((op = "close")
            => /\ x_pc = "returned"
               /\ _connection = NoHandle
               /\ x_held \notin alive)
    /\ [][(op = "none" /\ op' = "close" /\ _connection = NoHandle)
            => UNCHANGED <<cfgVars, cliVars, connVars, execVars, ansVars, docVars>>]_vars
    /\ [][(op = "none" /\ op' = "connect" /\ _connection = NoHandle)
            => cpc' = "try"]_vars
    /\ [][(cpc = "try" /\ cpc' = "returned")
            => /\ issued' = issued + 1
               /\ _connection' = issued'
               /\ _connection' \notin alive
               /\ _connection' \in alive']_vars

\* closing handle 1 raised an exception that is not a driver error
C26_Witness ==
    /\ op = "close" /\ x_held = 1 /\ x_e = Failure("Other", MsgReset)
    /\ x_pc = "returned" /\ _connection = NoHandle
\* C27 as stated: when two threads call connect() concurrently while no
\* handle is held and both calls return, a single connection has been
\* established, both callers have received that same handle, and no
\* connection established is left open while the client holds another one.
C27_SingleSharedConnection ==
    (op = "race" /\ \A t \in Threads : t_pc[t] = "returned")
      => LET made == {t_made[t] : t \in Threads} \ {NoHandle}
         IN  /\ Cardinality(made) = 1
             /\ t_ret[1] = t_ret[2]
             /\ t_ret[1] \in made
             /\ alive \subseteq {_connection}

\* C27 amended: nothing serializes two threads inside connect().  When both
\* find no handle before either has stored one, each establishes its own
\* connection: two connections are established, the later assignment
\* overwrites the earlier one, and the connection assigned first is no longer
\* referenced by the client, which never closes it.  A caller receives what
\* _connection names at the moment it returns, not necessarily the handle it
\* established.  Only a thread that enters after the other has stored its
\* handle probes that handle and, the probe succeeding, returns it without
\* establishing a connection.
C27_UnserializedConnect ==
    /\ []((op = "race")
            => LET made == {t_made[t] : t \in Threads} \ {NoHandle}
               IN  /\ made \subseteq 1..issued
                   /\ (\A t \in Threads : t_made[t] # NoHandle)
                        => Cardinality(made) = 2
                   /\ (\A t \in Threads :
                         t_pc[t] \in {"return", "returned"} /\ t_made[t] # NoHandle)
                        => (_connection \in made /\ made \ {_connection} # {})
                   /\ \A t \in Threads :
                        (t_pc[t] \in {"return", "returned"} /\ t_made[t] = NoHandle)
                          => (_connection \in made
                                /\ (t_pc[t] = "returned" => t_ret[t] = _connection)))
    /\ [][\A t \in Threads :
            (t_pc[t] = "return" /\ t_pc'[t] = "returned")
              => (t_ret'[t] = _connection /\ UNCHANGED <<_connection, alive, issued>>)]_vars
    /\ [][(_connection # NoHandle /\ _connection' # _connection /\ _connection' # NoHandle)
            => (_connection \in alive => _connection \in alive' \ {_connection'})]_vars

\* both threads found no handle and each established a connection: handle 2
\* overwrote handle 1, which stays open; one caller received 1, the other 2
C27_Witness ==
    /\ op = "race" /\ \A t \in Threads : t_pc[t] = "returned"
    /\ t_made[1] = 1 /\ t_made[2] = 2 /\ t_ret[1] = 1 /\ t_ret[2] = 2
    /\ _connection = 2 /\ alive = {1, 2}
====
